---- MODULE Spec2Model ----
(***************************************************************************)
(* A model of PDFSectionExtractor (src/pdf_section_extractor.py): the      *)
(* table-of-contents pass, the section content scan, the pattern builder   *)
(* and the orchestrator with its error handlers.                           *)
(*                                                                         *)
(* A text is a sequence of characters; a character is a one-character      *)
(* string.  The two non-ASCII characters the normalizer names are written  *)
(* "EMDASH" and "RSQUO", and the grave accent "BACKTICK".  Page indices    *)
(* are 0-based as in the source, so page i of the document is doc[i + 1].  *)
(***************************************************************************)
EXTENDS Integers, Sequences, FiniteSets, TLC

\* ------------------------------------------------------------ bounds
\* The longest document the model reads, in pages.
MaxPages == 3
\* The longest title the pattern-builder specification draws, in words.
MaxWords == 3
\* The longest text the normalizer specification draws, in characters.
MaxLen == 4

\* -------------------------------------------------------- characters
Punctuation ==
  {"!", "\"", "#", "$", "%", "&", "'", "(", ")", "*", "+", ",", "-", ".", "/",
   ":", ";", "<", "=", ">", "?", "@", "[", "\\", "]", "^", "_", "BACKTICK", "{", "|",
   "}", "~", "EMDASH", "RSQUO"}

\* What \s matches and what str.strip() removes.
Whitespace == {" ", "\t", "\n", "\r", "\f"}

UpperLetters ==
  <<"A", "B", "C", "D", "E", "F", "G", "H", "I", "J", "K", "L", "M", "N", "O",
    "P", "Q", "R", "S", "T", "U", "V", "W", "X", "Y", "Z">>

LowerLetters ==
  <<"a", "b", "c", "d", "e", "f", "g", "h", "i", "j", "k", "l", "m", "n", "o",
    "p", "q", "r", "s", "t", "u", "v", "w", "x", "y", "z">>

Digits == {"0", "1", "2", "3", "4", "5", "6", "7", "8", "9"}

Letters == {UpperLetters[i] : i \in 1..26} \cup {LowerLetters[i] : i \in 1..26}

\* str.lower() on one character.
LowerChar(c) ==
  IF \E i \in 1..26 : UpperLetters[i] = c
    THEN LowerLetters[CHOOSE i \in 1..26 : UpperLetters[i] = c]
    ELSE c

MARKER ==
  <<"A", "R", "R", "A", "N", "G", "E", "M", "E", "N", "T", " ", "O", "F", " ",
    "S", "E", "C", "T", "I", "O", "N", "S">>

CHAPTER == <<"C", "H", "A", "P", "T", "E", "R">>

\* ------------------------------------------------------ text helpers
\* Whether sub occurs in text at position i (1-based).
OccursAt(text, sub, i) ==
  /\ i >= 1
  /\ i + Len(sub) - 1 <= Len(text)
  /\ \A k \in 1..Len(sub) : text[i + k - 1] = sub[k]

\* Python's (sub in text); the empty string is in every text.
Contains(text, sub) == \E i \in 1..(Len(text) + 1) : OccursAt(text, sub, i)

\* The first position of sub in text, 0 when there is none.
Find(text, sub) ==
  IF Contains(text, sub)
    THEN CHOOSE i \in 1..(Len(text) + 1) :
           /\ OccursAt(text, sub, i)
           /\ \A j \in 1..(i - 1) : ~OccursAt(text, sub, j)
    ELSE 0

Drop(text, n) == SubSeq(text, n + 1, Len(text))

Take(text, n) == SubSeq(text, 1, n)

\* str.split(sep) for a non-empty separator.
RECURSIVE Split(_, _)
Split(text, sep) ==
  LET i == Find(text, sep)
  IN  IF i = 0
        THEN <<text>>
        ELSE <<Take(text, i - 1)>> \o Split(Drop(text, i - 1 + Len(sep)), sep)

\* str.strip().
Strip(text) ==
  LET keep == {i \in 1..Len(text) : text[i] \notin Whitespace}
  IN  IF keep = {}
        THEN <<>>
        ELSE SubSeq(text, CHOOSE i \in keep : \A j \in keep : i <= j,
                          CHOOSE i \in keep : \A j \in keep : j <= i)

\* str.translate: every punctuation character becomes one space.
Translate(text) ==
  [i \in 1..Len(text) |-> IF text[i] \in Punctuation THEN " " ELSE text[i]]

Lower(text) == [i \in 1..Len(text) |-> LowerChar(text[i])]

\* re.sub(r'\s+', ' ', text): each run of whitespace becomes one space.
RECURSIVE CollapseFrom(_, _)
CollapseFrom(text, i) ==
  IF i > Len(text)
    THEN <<>>
    ELSE IF text[i] \in Whitespace
      THEN IF i > 1 /\ text[i - 1] \in Whitespace
             THEN CollapseFrom(text, i + 1)
             ELSE <<" ">> \o CollapseFrom(text, i + 1)
      ELSE <<text[i]>> \o CollapseFrom(text, i + 1)

Collapse(text) == CollapseFrom(text, 1)

\* A normalizer that forgets the final strip().
clean_text_unstripped(text) == Collapse(Lower(Translate(text)))

clean_text(text) == Strip(Collapse(Lower(Translate(text))))

\* ------------------------------------------------ TOC classification
is_chapter_line(line) == Contains(line, CHAPTER)

\* The length of the longest prefix of text from position i made of cls.
RECURSIVE RunLen(_, _, _)
RunLen(text, i, cls) ==
  IF i <= Len(text) /\ text[i] \in cls THEN 1 + RunLen(text, i + 1, cls) ELSE 0

\* re.match(r"^\d+\.\s+[A-Za-z].*", s): the end of the match, 0 for no match.
\* The digit run and the whitespace run are followed by characters outside
\* their classes, so only the longest runs can match; ".*" stops at "\n".
SectionMatchEnd(s) ==
  LET d  == RunLen(s, 1, Digits)
      w  == RunLen(s, d + 2, Whitespace)
      a  == d + 2 + w
      nl == {i \in a..Len(s) : s[i] = "\n"}
  IN  IF /\ d >= 1
         /\ d + 1 <= Len(s) /\ s[d + 1] = "."
         /\ w >= 1
         /\ a <= Len(s) /\ s[a] \in Letters
        THEN IF nl = {} THEN Len(s)
             ELSE (CHOOSE i \in nl : \A j \in nl : i <= j) - 1
        ELSE 0

is_section_line(line) == SectionMatchEnd(Strip(line)) > 0

\* ----------------------------------------------------- the hierarchy
\* chapters_sections is a dict, which keeps its keys in insertion order: a
\* sequence of [chapter, sections] entries with distinct chapters.
DictHas(d, k) == \E i \in 1..Len(d) : d[i].chapter = k

DictIndex(d, k) == CHOOSE i \in 1..Len(d) : d[i].chapter = k

\* d[k] = v: a key already present keeps its place.
DictSet(d, k, v) ==
  IF DictHas(d, k)
    THEN [d EXCEPT ![DictIndex(d, k)].sections = v]
    ELSE Append(d, [chapter |-> k, sections |-> v])

\* A chapter line that keeps the sections already stored under its key.
SectionsKeptOnChapterLine(d, k) ==
  IF DictHas(d, k) THEN d[DictIndex(d, k)].sections ELSE <<>>

\* What a chapter line stores under its heading.
SectionsOnChapterLine(d, k) == <<>>

\* process_toc_line on one line, from the loop state st = [cc, cs, err]:
\* cc the current chapter, cs the hierarchy, err the exception raised so far.
process_toc_line(st, line) ==
  IF st.err # "none"
    THEN st
    ELSE IF is_chapter_line(line)
      THEN [st EXCEPT !.cc = Strip(line),
                      !.cs = DictSet(st.cs, Strip(line),
                                     SectionsOnChapterLine(st.cs, Strip(line)))]
      ELSE IF is_section_line(line)
        THEN LET s             == Strip(line)
                 section       == Take(s, SectionMatchEnd(s))
                 section_title == clean_text(section)
             IN  IF DictHas(st.cs, st.cc)
                   THEN [st EXCEPT !.cs[DictIndex(st.cs, st.cc)].sections =
                                        Append(@, section_title)]
                   ELSE [st EXCEPT !.err = "KeyError"]
        ELSE st

\* The for loop over the lines of one page.
RECURSIVE ProcessLines(_, _, _)
ProcessLines(st, lines, i) ==
  IF i > Len(lines)
    THEN st
    ELSE ProcessLines(process_toc_line(st, lines[i]), lines, i + 1)

\* [sec for secs in chapters_sections.values() for sec in secs]
RECURSIVE Flatten(_, _)
Flatten(d, i) ==
  IF i > Len(d) THEN <<>> ELSE d[i].sections \o Flatten(d, i + 1)

\* ------------------------------------------------- the pattern builder
\* str.split(): the maximal runs of non-whitespace characters.
RECURSIVE Words(_)
Words(text) ==
  LET s == Strip(text)
      n == RunLen(s, 1, {s[i] : i \in 1..Len(s)} \ Whitespace)
  IN  IF s = <<>> THEN <<>> ELSE <<Take(s, n)>> \o Words(Drop(s, n))

Lit(c) == [kind |-> "lit", ch |-> c]

Opt(c) == [kind |-> "opt", ch |-> c]

\* A builder that appends "s?" to every word, whatever its last letter.
WordPatternAppendOnly(word) ==
  [i \in 1..Len(word) |-> Lit(word[i])] \o <<Opt("s")>>

\* One word of the title: f"{word}s?" for a word that does not end in "s",
\* f"{word}?" for one that does ("?" then binds to the final "s").
WordPattern(word) ==
  IF word[Len(word)] # "s"
    THEN [i \in 1..Len(word) |-> Lit(word[i])] \o <<Opt("s")>>
    ELSE [i \in 1..(Len(word) - 1) |-> Lit(word[i])] \o <<Opt(word[Len(word)])>>

\* r'\s'.join(...)
RECURSIVE JoinWords(_, _)
JoinWords(words, i) ==
  IF i > Len(words)
    THEN <<>>
    ELSE (IF i > 1 THEN <<[kind |-> "ws", ch |-> " "]>> ELSE <<>>)
           \o WordPattern(words[i]) \o JoinWords(words, i + 1)

\* The compiled pattern: the title part, then (.*?)(?=\f|\Z) under DOTALL.
compile_section_pattern(section) ==
  JoinWords(Words(section), 1) \o <<[kind |-> "tail", ch |-> " "]>>

\* Whether items k.. of pat match text from position i (1-based).
RECURSIVE MatchFrom(_, _, _, _)
MatchFrom(pat, k, text, i) ==
  IF k > Len(pat)
    THEN TRUE
    ELSE LET it == pat[k]
         IN  CASE it.kind = "lit" ->
                    /\ i <= Len(text) /\ text[i] = it.ch
                    /\ MatchFrom(pat, k + 1, text, i + 1)
               [] it.kind = "opt" ->
                    \/ /\ i <= Len(text) /\ text[i] = it.ch
                       /\ MatchFrom(pat, k + 1, text, i + 1)
                    \/ MatchFrom(pat, k + 1, text, i)
               [] it.kind = "ws" ->
                    /\ i <= Len(text) /\ text[i] \in Whitespace
                    /\ MatchFrom(pat, k + 1, text, i + 1)
               [] it.kind = "tail" ->
                    \* the lazy group ends at the first form feed or at the end
                    /\ \E j \in i..(Len(text) + 1) :
                          j = Len(text) + 1 \/ text[j] = "\f"
                    /\ MatchFrom(pat, k + 1, text, i)

\* pattern.search(text).start(), 0-based; -1 when search returns None.
Search(pat, text) ==
  LET hits == {i \in 1..(Len(text) + 1) : MatchFrom(pat, 1, text, i)}
  IN  IF hits = {} THEN -1
      ELSE (CHOOSE i \in hits : \A j \in hits : i <= j) - 1

\* ---------------------------------------------------------- the state
VARIABLES
  doc,                  \* self.doc: the pages' raw texts
  title,                \* self.doc.metadata['title']
  handle,               \* the document handle: "open" or "closed"
  pc,                   \* the position in extract_sections_to_json
  toc_page,             \* page.number in extract_table_of_contents
  toc_found,
  broke,                \* the TOC loop was left by its break
  current_chapter,
  chapters_sections,
  last_page,
  start_page,           \* extract_section_content's arguments
  sections,
  section_patterns,
  page_num,
  text,
  text_bound,           \* whether the local text has been assigned
  page_processed,
  current_section_index,
  current_section_text,
  formatted_data,
  exc,                  \* the exception in flight or handled, "none" for none
  diag,                 \* the message the handler printed, "none" for none
  writer_calls,         \* how many times save_data_to_json was called
  saved,                \* what the writer was handed
  carry,                \* history: the last page end that carried text over
  ev,                   \* history: what the last step of the scan did
  since_boundary,       \* history: the page text left since the last boundary
  finalized,            \* history: the value stored for each position so far
  pat_title,            \* the pattern builder on its own: its input title,
  pat_text,             \*   the text searched,
  pat_pattern,          \*   the compiled pattern,
  pat_start,            \*   and the start of the match (-2: not searched)
  norm_in,              \* the normalizer on its own: its input text,
  norm_out,             \*   clean_text of it,
  norm_again,           \*   clean_text of that,
  norm_step,            \*   and how many of the two calls have run
  toc_lines,            \* the TOC line loop on its own: the lines given,
  toc_pos               \*   and how many of them have been processed

toc_vars == <<toc_page, toc_found, broke, current_chapter, chapters_sections,
              last_page>>

scan_vars == <<start_page, sections, section_patterns, page_num, text,
               text_bound, page_processed, current_section_index,
               current_section_text, formatted_data>>

io_vars == <<exc, diag, writer_calls, saved>>

hist_vars == <<carry, ev, since_boundary, finalized>>

pat_vars == <<pat_title, pat_text, pat_pattern, pat_start>>

norm_vars == <<norm_in, norm_out, norm_again, norm_step>>

line_vars == <<toc_lines, toc_pos>>

vars == <<doc, title, handle, pc, toc_vars, scan_vars, io_vars, hist_vars,
          pat_vars, norm_vars, line_vars>>

\* ------------------------------------------------------- the documents
\* a table-of-contents page that also carries the document title: "Act\nARRANGEMENT OF SECTIONS\nCHAPTER I\n1. Ab\n2. Cd\n3. Ef"
PageToc ==
  <<"A", "c", "t", "\n", "A", "R", "R", "A", "N", "G", "E", "M", "E", "N",
    "T", " ", "O", "F", " ", "S", "E", "C", "T", "I", "O", "N", "S", "\n",
    "C", "H", "A", "P", "T", "E", "R", " ", "I", "\n", "1", ".", " ", "A",
    "b", "\n", "2", ".", " ", "C", "d", "\n", "3", ".", " ", "E", "f">>

\* a table of contents whose first section line precedes any chapter line: "ARRANGEMENT OF SECTIONS\n1. Ab"
PageTocNoChapter ==
  <<"A", "R", "R", "A", "N", "G", "E", "M", "E", "N", "T", " ", "O", "F",
    " ", "S", "E", "C", "T", "I", "O", "N", "S", "\n", "1", ".", " ", "A",
    "b">>

\* a continuation page of the table of contents: "CHAPTER II\n4. Gh"
PageTocMore ==
  <<"C", "H", "A", "P", "T", "E", "R", " ", "I", "I", "\n", "4", ".", " ",
    "G", "h">>

\* a TOC page whose marker comes after a chapter line and a section line, and
\* that lists one title twice:
\* "CHAPTER X\n9. Zz\nARRANGEMENT OF SECTIONS\nCHAPTER I\n1. Ab\n1. Ab"
PageTocAfterLines ==
  <<"C", "H", "A", "P", "T", "E", "R", " ", "X", "\n", "9", ".", " ", "Z",
    "z", "\n", "A", "R", "R", "A", "N", "G", "E", "M", "E", "N", "T", " ",
    "O", "F", " ", "S", "E", "C", "T", "I", "O", "N", "S", "\n", "C", "H",
    "A", "P", "T", "E", "R", " ", "I", "\n", "1", ".", " ", "A", "b", "\n",
    "1", ".", " ", "A", "b">>

\* a TOC page with a chapter heading and no section line:
\* "ARRANGEMENT OF SECTIONS\nCHAPTER I"
PageTocNoSection ==
  <<"A", "R", "R", "A", "N", "G", "E", "M", "E", "N", "T", " ", "O", "F", " ",
    "S", "E", "C", "T", "I", "O", "N", "S", "\n", "C", "H", "A", "P", "T",
    "E", "R", " ", "I">>

\* a cover page: the title and lines that look like TOC lines: "Act\nCHAPTER X\n9. Zz"
PageCover ==
  <<"A", "c", "t", "\n", "C", "H", "A", "P", "T", "E", "R", " ", "X", "\n",
    "9", ".", " ", "Z", "z">>

\* the three sections on one body page: "1. Ab the Act.\n2. Cd y.\n3. Ef z"
PageBodyAll ==
  <<"1", ".", " ", "A", "b", " ", "t", "h", "e", " ", "A", "c", "t", ".",
    "\n", "2", ".", " ", "C", "d", " ", "y", ".", "\n", "3", ".", " ", "E",
    "f", " ", "z">>

\* a body page holding the first section only: "1. Ab the Act."
PageBodyFirst ==
  <<"1", ".", " ", "A", "b", " ", "t", "h", "e", " ", "A", "c", "t", ".">>

\* a body page that continues a section, then holds two more: "w 2. Cd y. 3. Ef z"
PageBodyRest ==
  <<"w", " ", "2", ".", " ", "C", "d", " ", "y", ".", " ", "3", ".", " ",
    "E", "f", " ", "z">>

\* a body page holding the last section only: "3. Ef z"
PageBodyLast ==
  <<"3", ".", " ", "E", "f", " ", "z">>

\* a document title: "Act"
TitleAct ==
  <<"A", "c", "t">>

Pages ==
  {PageToc, PageTocNoChapter, PageTocMore, PageTocAfterLines,
   PageTocNoSection, PageCover, PageBodyAll, PageBodyFirst, PageBodyRest,
   PageBodyLast}

\* The metadata title: missing (the empty string) or present.
Titles == {<<>>, TitleAct}

Documents == UNION {[1..n -> Pages] : n \in 1..MaxPages}

NoCarry == [page |-> -1, idx |-> -1, before |-> <<>>, rem |-> <<>>]

NoEvent == [kind |-> "none", page |-> -1, idx |-> -1, prefix |-> <<>>]

\* The locals of the three methods before any of them has run.
ExtractLocals ==
  /\ toc_page = 0
  /\ toc_found = FALSE
  /\ broke = FALSE
  /\ current_chapter = <<>>
  /\ chapters_sections = <<>>
  /\ last_page = 0
  /\ start_page = 0
  /\ sections = <<>>
  /\ section_patterns = <<>>
  /\ page_num = 0
  /\ text = <<>>
  /\ text_bound = FALSE
  /\ page_processed = FALSE
  /\ current_section_index = 0
  /\ current_section_text = <<>>
  /\ formatted_data = <<>>
  /\ exc = "none"
  /\ diag = "none"
  /\ writer_calls = 0
  /\ saved = <<>>
  /\ carry = NoCarry
  /\ ev = NoEvent
  /\ since_boundary = <<>>
  /\ finalized = <<>>

\* The state once __init__ has opened the document and
\* extract_sections_to_json has been entered.
InitExtract ==
  /\ doc \in Documents
  /\ title \in Titles
  /\ handle = "open"
  /\ pc = "toc"
  /\ ExtractLocals

PatIdle ==
  /\ pat_title = <<>>
  /\ pat_text = <<>>
  /\ pat_pattern = <<>>
  /\ pat_start = -2

NormIdle ==
  /\ norm_in = <<>>
  /\ norm_out = <<>>
  /\ norm_again = <<>>
  /\ norm_step = 0

LinesIdle ==
  /\ toc_lines = <<>>
  /\ toc_pos = 0

Init == InitExtract /\ PatIdle /\ NormIdle /\ LinesIdle

\* ------------------------------------------------- the error handlers
\* The classes an exception is an instance of (IOError is OSError).
Ancestors(e) ==
  CASE e = "KeyError" -> {"KeyError", "LookupError", "Exception"}
    [] e = "IndexError" -> {"IndexError", "LookupError", "Exception"}
    [] e = "UnboundLocalError" -> {"UnboundLocalError", "NameError", "Exception"}
    [] e = "OSError" -> {"OSError", "Exception"}
    [] OTHER -> {"Exception"}

\* Clauses whose third one names ValueError alone.
HandlerClausesValueOnly ==
  << [classes |-> {"FileNotFoundError", "OSError", "PermissionError"},
      msg |-> "File error occurred"],
     [classes |-> {"re.error"}, msg |-> "Regex error occurred"],
     [classes |-> {"ValueError"}, msg |-> "Data processing error occurred"],
     [classes |-> {"Exception"}, msg |-> "Unknown error occurred"] >>

\* The except clauses of extract_sections_to_json, in order.
HandlerClauses ==
  << [classes |-> {"FileNotFoundError", "OSError", "PermissionError"},
      msg |-> "File error occurred"],
     [classes |-> {"re.error"}, msg |-> "Regex error occurred"],
     [classes |-> {"ValueError", "IndexError"},
      msg |-> "Data processing error occurred"],
     [classes |-> {"Exception"}, msg |-> "Unknown error occurred"] >>

\* The handlers without the last, catch-all clause.
CategoryNoCatchAll(e) ==
  LET hit == {i \in 1..(Len(HandlerClauses) - 1) :
                HandlerClauses[i].classes \cap Ancestors(e) # {}}
  IN  IF hit = {} THEN "uncaught"
      ELSE HandlerClauses[CHOOSE i \in hit : \A j \in hit : i <= j].msg

\* The message of the first clause that catches e, "uncaught" for none.
Category(e) ==
  LET hit == {i \in 1..Len(HandlerClauses) :
                HandlerClauses[i].classes \cap Ancestors(e) # {}}
  IN  IF hit = {} THEN "uncaught"
      ELSE HandlerClauses[CHOOSE i \in hit : \A j \in hit : i <= j].msg

\* A pipeline that goes on with its next statement after a failure.
OnRaiseContinue(next_pc, err) == next_pc

\* Inside the try block a raised exception leaves the pipeline for the
\* handlers; without one the next statement runs.
OnRaise(next_pc, err) == IF err = "none" THEN next_pc ELSE "except"

\* -------------------------------------------- extract_table_of_contents
\* The page text the loop body works on, and whether the marker is in it.
HasMarker(raw) == Contains(raw, MARKER)

\* A loop body that reads the whole text of a marker page.
TocTextWholePage(raw) == raw

\* text = text.split("ARRANGEMENT OF SECTIONS")[1] on a marker page.
TocText(raw) == IF HasMarker(raw) THEN Split(raw, MARKER)[2] ELSE raw

\* first_page, as the loop body sets it for the page it visits.
first_page(raw) == HasMarker(raw)

\* A loop body that records the page before the one it visits.
LastPageBeforeVisit(number, previous) == number - 1

\* last_page = page.number, the first statement of the loop body that
\* writes it: it runs before the break.
LastPageOnVisit(number, previous) == number

\* Whether the loop body breaks on this page.
TocBreaks(raw) ==
  /\ toc_found \/ HasMarker(raw)
  /\ Contains(TocText(raw), title)
  /\ ~first_page(raw)

\* A page before the marker has been found: nothing is read from it.
TocSkipPage ==
  /\ pc = "toc"
  /\ toc_page < Len(doc)
  /\ ~toc_found /\ ~HasMarker(doc[toc_page + 1])
  /\ last_page' = LastPageOnVisit(toc_page, last_page)
  /\ toc_page' = toc_page + 1
  /\ UNCHANGED <<doc, title, handle, pc, toc_found, broke, current_chapter,
                 chapters_sections, scan_vars, io_vars, hist_vars, pat_vars,
                 norm_vars, line_vars>>

\* A page of the TOC region: its lines are classified, and a section line
\* with no current chapter raises KeyError.
TocProcessPage ==
  /\ pc = "toc"
  /\ toc_page < Len(doc)
  /\ toc_found \/ HasMarker(doc[toc_page + 1])
  /\ ~TocBreaks(doc[toc_page + 1])
  /\ LET st == ProcessLines([cc |-> current_chapter, cs |-> chapters_sections,
                             err |-> "none"],
                            Split(TocText(doc[toc_page + 1]), <<"\n">>), 1)
     IN  /\ current_chapter' = st.cc
         /\ chapters_sections' = st.cs
         /\ exc' = st.err
         /\ pc' = OnRaise("toc", st.err)
         /\ toc_page' = IF st.err = "none" THEN toc_page + 1 ELSE toc_page
  /\ toc_found' = TRUE
  /\ last_page' = LastPageOnVisit(toc_page, last_page)
  /\ UNCHANGED <<doc, title, handle, broke, scan_vars, diag, writer_calls,
                 saved, hist_vars, pat_vars,
                 norm_vars, line_vars>>

\* The title check fires: the loop is left without reading the page's lines.
TocBreak ==
  /\ pc = "toc"
  /\ toc_page < Len(doc)
  /\ TocBreaks(doc[toc_page + 1])
  /\ last_page' = LastPageOnVisit(toc_page, last_page)
  /\ broke' = TRUE
  /\ pc' = "toc_return"
  /\ UNCHANGED <<doc, title, handle, toc_page, toc_found, current_chapter,
                 chapters_sections, scan_vars, io_vars, hist_vars, pat_vars,
                 norm_vars, line_vars>>

\* The loop has visited every page.
TocExhausted ==
  /\ pc = "toc"
  /\ toc_page = Len(doc)
  /\ pc' = "toc_return"
  /\ UNCHANGED <<doc, title, handle, toc_vars, scan_vars, io_vars, hist_vars,
                 pat_vars,
                 norm_vars, line_vars>>

\* ----------------------------------------------- extract_section_content
\* A store that replaces the mapping by the one new entry.
DataSetFresh(d, k, v) == [x \in {k} |-> v]

\* A store that leaves a key already present as it is.
DataSetKeepFirst(d, k, v) ==
  [x \in DOMAIN d \cup {k} |-> IF x \in DOMAIN d THEN d[x] ELSE v]

\* formatted_data[k] = v
DataSet(d, k, v) == [x \in DOMAIN d \cup {k} |-> IF x = k THEN v ELSE d[x]]

\* A boundary step that stores the prefix alone, dropping what was carried.
AppendAtBoundaryOverwrite(acc, prefix) == Strip(prefix)

\* current_section_text += text[:next_match.start()].strip()
AppendAtBoundary(acc, prefix) == acc \o Strip(prefix)

\* A no-match step that keeps the page text alone.
AppendPageReplace(acc, rest) == rest

\* current_section_text += text
AppendPage(acc, rest) == acc \o rest

\* What the statement after the page loop stores for the last section.
FinalValue(acc, rest) == rest

\* A boundary step that leaves the index where it is.
NextIndexStay(i) == i

\* A boundary step that moves the index past the section it found.
NextIndexSkip(i) == i + 2

\* current_section_index += 1
NextIndex(i) == i + 1

\* The guard of the inner while loop.
InnerGuard == current_section_index < Len(sections) - 1 /\ ~page_processed

\* The orchestrator flattens the hierarchy and enters the scan: the
\* patterns are compiled and the scanner's locals initialised.
ScanBegin ==
  /\ pc = "toc_return"
  /\ sections' = Flatten(chapters_sections, 1)
  /\ start_page' = last_page
  /\ formatted_data' = <<>>
  /\ section_patterns' =
       [i \in 1..Len(sections') |-> compile_section_pattern(sections'[i])]
  /\ current_section_index' = 0
  /\ current_section_text' = <<>>
  /\ page_num' = last_page
  /\ pc' = "scan_page"
  /\ UNCHANGED <<doc, title, handle, toc_vars, text, text_bound,
                 page_processed, io_vars, hist_vars, pat_vars,
                 norm_vars, line_vars>>

\* The head of the page loop, with a page left: its text is normalized.
ScanFetchPage ==
  /\ pc = "scan_page"
  /\ page_num < Len(doc)
  /\ text' = clean_text(doc[page_num + 1])
  /\ text_bound' = TRUE
  /\ page_processed' = FALSE
  /\ pc' = "scan_inner"
  /\ ev' = NoEvent
  /\ UNCHANGED <<doc, title, handle, toc_vars, start_page, sections,
                 section_patterns, page_num, current_section_index,
                 current_section_text, formatted_data, io_vars, carry,
                 since_boundary, finalized, pat_vars,
                 norm_vars, line_vars>>

\* One turn of the inner loop in which the next section's pattern matches.
ScanMatch ==
  /\ pc = "scan_inner"
  /\ InnerGuard
  /\ LET m == Search(section_patterns[current_section_index + 2], text)
     IN  /\ m >= 0
         /\ formatted_data' =
              DataSet(formatted_data, sections[current_section_index + 1],
                      AppendAtBoundary(current_section_text, Take(text, m)))
         /\ finalized' =
              Append(finalized,
                     AppendAtBoundary(current_section_text, Take(text, m)))
         /\ text' = Drop(text, m)
         /\ ev' = [kind |-> "boundary", page |-> page_num,
                   idx |-> current_section_index, prefix |-> Take(text, m)]
  /\ current_section_index' = NextIndex(current_section_index)
  /\ current_section_text' = <<>>
  /\ since_boundary' = <<>>
  /\ UNCHANGED <<doc, title, handle, pc, toc_vars, start_page, sections,
                 section_patterns, page_num, text_bound, page_processed,
                 io_vars, carry, pat_vars,
                 norm_vars, line_vars>>

\* One turn of the inner loop in which it does not match.
ScanNoMatch ==
  /\ pc = "scan_inner"
  /\ InnerGuard
  /\ Search(section_patterns[current_section_index + 2], text) < 0
  /\ page_processed' = TRUE
  /\ current_section_text' = AppendPage(current_section_text, text)
  /\ carry' = [page |-> page_num, idx |-> current_section_index,
               before |-> current_section_text, rem |-> text]
  /\ ev' = [kind |-> "nomatch", page |-> page_num,
            idx |-> current_section_index, prefix |-> <<>>]
  /\ since_boundary' = since_boundary \o text
  /\ UNCHANGED <<doc, title, handle, pc, toc_vars, start_page, sections,
                 section_patterns, page_num, text, text_bound,
                 current_section_index, formatted_data, io_vars, finalized,
                 pat_vars,
                 norm_vars, line_vars>>

\* The inner loop's guard is false: the page loop moves to the next page.
ScanPageDone ==
  /\ pc = "scan_inner"
  /\ ~InnerGuard
  /\ page_num' = page_num + 1
  /\ pc' = "scan_page"
  /\ ev' = NoEvent
  /\ since_boundary' =
       IF page_processed THEN since_boundary ELSE since_boundary \o text
  /\ UNCHANGED <<doc, title, handle, toc_vars, start_page, sections,
                 section_patterns, text, text_bound, page_processed,
                 current_section_index, current_section_text, formatted_data,
                 io_vars, carry, finalized, pat_vars,
                 norm_vars, line_vars>>

\* The statement after the page loop.  Its right-hand side is evaluated
\* first (UnboundLocalError when no page was scanned), then the subscript
\* (IndexError for an empty section list).
ScanFinalize ==
  /\ pc = "scan_page"
  /\ page_num >= Len(doc)
  /\ LET err == IF ~text_bound THEN "UnboundLocalError"
                ELSE IF current_section_index >= Len(sections)
                  THEN "IndexError" ELSE "none"
     IN  /\ exc' = err
         /\ pc' = OnRaise("save", err)
         /\ formatted_data' =
              IF err = "none"
                THEN DataSet(formatted_data,
                             sections[current_section_index + 1],
                             FinalValue(current_section_text, text))
                ELSE formatted_data
         /\ finalized' =
              IF err = "none"
                THEN Append(finalized, FinalValue(current_section_text, text))
                ELSE finalized
         /\ ev' = [kind |-> IF err = "none" THEN "final" ELSE "none",
                   page |-> page_num, idx |-> current_section_index,
                   prefix |-> <<>>]
  /\ UNCHANGED <<doc, title, handle, toc_vars, start_page, sections,
                 section_patterns, page_num, text, text_bound, page_processed,
                 current_section_index, current_section_text, diag,
                 writer_calls, saved, carry, since_boundary, pat_vars,
                 norm_vars, line_vars>>

\* ------------------------------------------------ the output and the end
\* save_data_to_json writes the mapping.
SaveOk ==
  /\ pc = "save"
  /\ writer_calls' = writer_calls + 1
  /\ saved' = formatted_data
  /\ pc' = "returned"
  /\ UNCHANGED <<doc, title, handle, toc_vars, scan_vars, exc, diag,
                 hist_vars, pat_vars,
                 norm_vars, line_vars>>

\* save_data_to_json fails to open or to write the file.
SaveFail ==
  /\ pc = "save"
  /\ writer_calls' = writer_calls + 1
  /\ exc' = "OSError"
  /\ pc' = OnRaise("returned", "OSError")
  /\ UNCHANGED <<doc, title, handle, toc_vars, scan_vars, diag, saved,
                 hist_vars, pat_vars,
                 norm_vars, line_vars>>

\* The except clause that catches the exception prints its message and the
\* operation returns; an exception no clause catches propagates.
Report ==
  /\ pc = "except"
  /\ diag' = Category(exc)
  /\ pc' = IF Category(exc) = "uncaught" THEN "raised" ELSE "returned"
  /\ UNCHANGED <<doc, title, handle, toc_vars, scan_vars, exc, writer_calls,
                 saved, hist_vars, pat_vars,
                 norm_vars, line_vars>>

Next ==
  \/ TocSkipPage
  \/ TocProcessPage
  \/ TocBreak
  \/ TocExhausted
  \/ ScanBegin
  \/ ScanFetchPage
  \/ ScanMatch
  \/ ScanNoMatch
  \/ ScanPageDone
  \/ ScanFinalize
  \/ SaveOk
  \/ SaveFail
  \/ Report

Spec == Init /\ [][Next]_vars

\* ------------------------------------------ the pattern builder alone
\* The words the titles of this specification are made of.
WordArrest == <<"a", "r", "r", "e", "s", "t">>

WordOf == <<"o", "f">>

WordPerson == <<"p", "e", "r", "s", "o", "n">>

WordOrders == <<"o", "r", "d", "e", "r", "s">>

PatWords == {WordArrest, WordOf, WordPerson, WordOrders}

\* The words of ws joined by sep.
RECURSIVE JoinWith(_, _, _)
JoinWith(ws, sep, i) ==
  IF i > Len(ws)
    THEN <<>>
    ELSE (IF i > 1 THEN sep ELSE <<>>) \o ws[i] \o JoinWith(ws, sep, i + 1)

\* Normalized titles of one to MaxWords words.
PatTitles ==
  {JoinWith(ws, <<" ">>, 1) : ws \in UNION {[1..n -> PatWords] : n \in 1..MaxWords}}

\* A title word in its other number: with an "s" added, or with its final
\* "s" removed.
OtherNumber(w) ==
  IF w[Len(w)] = "s" THEN Take(w, Len(w) - 1) ELSE w \o <<"s">>

\* The texts made of the title's words, each in either number, joined by sep.
VariantTexts(ttl, sep) ==
  LET ws == Words(ttl)
  IN  {JoinWith([i \in 1..Len(ws) |-> IF flip[i] THEN OtherNumber(ws[i])
                                      ELSE ws[i]], sep, 1) :
         flip \in [1..Len(ws) -> BOOLEAN]}

\* The separators the searched texts are built with: one whitespace
\* character, or two.
PatSeparators == {<<" ">>, <<"\n">>, <<" ", " ">>}

\* The locals of the extraction, parked while the pattern builder runs alone.
ExtractIdle ==
  /\ doc = <<>>
  /\ title = <<>>
  /\ handle = "open"
  /\ pc = "idle"
  /\ ExtractLocals

InitPattern ==
  /\ LinesIdle
  /\ ExtractIdle
  /\ NormIdle
  /\ pat_title \in PatTitles
  /\ pat_text \in UNION {VariantTexts(pat_title, sep) : sep \in PatSeparators}
  /\ pat_pattern = <<>>
  /\ pat_start = -2

\* compile_section_pattern(pat_title)
PatCompile ==
  /\ pat_pattern = <<>>
  /\ pat_pattern' = compile_section_pattern(pat_title)
  /\ UNCHANGED <<doc, title, handle, pc, toc_vars, scan_vars, io_vars,
                 hist_vars, pat_title, pat_text, pat_start, norm_vars, line_vars>>

\* pattern.search(pat_text)
PatSearch ==
  /\ pat_pattern # <<>>
  /\ pat_start = -2
  /\ pat_start' = Search(pat_pattern, pat_text)
  /\ UNCHANGED <<doc, title, handle, pc, toc_vars, scan_vars, io_vars,
                 hist_vars, pat_title, pat_text, pat_pattern, norm_vars, line_vars>>

NextPattern == PatCompile \/ PatSearch

SpecPattern == InitPattern /\ [][NextPattern]_vars

\* ---------------------------------------------- the normalizer alone
\* The characters the texts of this specification are made of: letters of
\* both cases, punctuation (one of the two non-ASCII characters among it)
\* and whitespace.
NormChars == {"a", "B", ".", "EMDASH", " ", "\n"}

NormTexts == UNION {[1..n -> NormChars] : n \in 0..MaxLen}

InitNorm ==
  /\ LinesIdle
  /\ ExtractIdle
  /\ PatIdle
  /\ norm_in \in NormTexts
  /\ norm_out = <<>>
  /\ norm_again = <<>>
  /\ norm_step = 0

\* clean_text(norm_in)
NormClean ==
  /\ norm_step = 0
  /\ norm_out' = clean_text(norm_in)
  /\ norm_step' = 1
  /\ UNCHANGED <<doc, title, handle, pc, toc_vars, scan_vars, io_vars,
                 hist_vars, pat_vars, norm_in, norm_again, line_vars>>

\* clean_text(clean_text(norm_in))
NormCleanAgain ==
  /\ norm_step = 1
  /\ norm_again' = clean_text(norm_out)
  /\ norm_step' = 2
  /\ UNCHANGED <<doc, title, handle, pc, toc_vars, scan_vars, io_vars,
                 hist_vars, pat_vars, norm_in, norm_out, line_vars>>

NextNorm == NormClean \/ NormCleanAgain

SpecNorm == InitNorm /\ [][NextNorm]_vars

\* ---------------------------------------------------------------------
\* The TOC line loop on its own: process_toc_line applied to the lines of a
\* TOC region one after another, from an empty hierarchy.

MaxLines == 4

LineChapterI == <<"C", "H", "A", "P", "T", "E", "R", " ", "I">>

LineChapterIIndented == <<" ", "C", "H", "A", "P", "T", "E", "R", " ", "I">>

LineChapterII == <<"C", "H", "A", "P", "T", "E", "R", " ", "I", "I">>

LineSectionAb == <<"1", ".", " ", "A", "b">>

LineSectionCd == <<"2", ".", " ", "C", "d", ".">>

LineOther == <<"x">>

TocLines == {LineChapterI, LineChapterIIndented, LineChapterII,
             LineSectionAb, LineSectionCd, LineOther}

TocLineSeqs == UNION {[1..n -> TocLines] : n \in 1..MaxLines}

InitToc ==
  /\ ExtractIdle
  /\ PatIdle
  /\ NormIdle
  /\ toc_lines \in TocLineSeqs
  /\ toc_pos = 0

\* current_chapter = self.process_toc_line(line, current_chapter,
\*                                         chapters_sections)
TocLine ==
  /\ pc = "idle"
  /\ exc = "none"
  /\ toc_pos < Len(toc_lines)
  /\ LET st == process_toc_line([cc |-> current_chapter,
                                 cs |-> chapters_sections, err |-> "none"],
                                toc_lines[toc_pos + 1])
     IN  /\ current_chapter' = st.cc
         /\ chapters_sections' = st.cs
         /\ exc' = st.err
  /\ toc_pos' = toc_pos + 1
  /\ UNCHANGED <<doc, title, handle, pc, toc_page, toc_found, broke,
                 last_page, scan_vars, diag, writer_calls, saved, hist_vars,
                 pat_vars, norm_vars, toc_lines>>

NextToc == TocLine

SpecToc == InitToc /\ [][NextToc]_vars

\* ------------------------------------------------------------ claims
\* extract_section_content has returned its mapping to the orchestrator.
ScanReturned == pc \in {"save", "returned"} /\ exc \in {"none", "OSError"}

\* The normalized text of the pages from page i (0-based) on, joined by " ".
RECURSIVE BodyText(_)
BodyText(i) ==
  IF i >= Len(doc)
    THEN <<>>
    ELSE IF i = Len(doc) - 1
      THEN clean_text(doc[i + 1])
      ELSE clean_text(doc[i + 1]) \o <<" ">> \o BodyText(i + 1)

\* Whether body text t is title(S1) B1 title(S2) B2 title(S3) B3 with the
\* second and third titles at positions p2 and p3, no title inside a body.
ThreeSectionLayout(t, p2, p3) ==
  LET B1 == Strip(SubSeq(t, Len(sections[1]) + 1, p2 - 1))
      B2 == Strip(SubSeq(t, p2 + Len(sections[2]), p3 - 1))
      B3 == Strip(SubSeq(t, p3 + Len(sections[3]), Len(t)))
  IN  /\ OccursAt(t, sections[1], 1)
      /\ Len(sections[1]) + 1 < p2
      /\ OccursAt(t, sections[2], p2)
      /\ p2 + Len(sections[2]) < p3
      /\ OccursAt(t, sections[3], p3)
      /\ \A i \in 1..3 : /\ ~Contains(B1, sections[i])
                         /\ ~Contains(B2, sections[i])
                         /\ ~Contains(B3, sections[i])

\* C1 (scanner boundary property): for a section list [S1, S2, S3] and body
\* pages whose normalized text is title(S1) B1 title(S2) B2 title(S3) B3,
\* the mapping returned has exactly the keys S1, S2, S3 and maps each Si to
\* its body Bi alone, trimmed: no title text, no part of another body.
C1_BodiesAlone ==
  (ScanReturned /\ Len(sections) = 3 /\ Cardinality({sections[i] : i \in 1..3}) = 3)
    => \A p2, p3 \in 1..Len(BodyText(start_page)) :
         ThreeSectionLayout(BodyText(start_page), p2, p3) =>
           LET t == BodyText(start_page)
           IN  /\ DOMAIN formatted_data = {sections[1], sections[2], sections[3]}
               /\ formatted_data[sections[1]] =
                    Strip(SubSeq(t, Len(sections[1]) + 1, p2 - 1))
               /\ formatted_data[sections[2]] =
                    Strip(SubSeq(t, p2 + Len(sections[2]), p3 - 1))
               /\ formatted_data[sections[3]] =
                    Strip(SubSeq(t, p3 + Len(sections[3]), Len(t)))

\* C2 (end-of-document finalization): the entry written for the section at
\* the final current_section_index is the text accumulated for it since the
\* last section boundary, over every page scanned after that boundary.
C2_FinalIsAccumulated ==
  ev.kind = "final"
    => formatted_data[sections[current_section_index + 1]] = since_boundary

\* The boundary just found was searched for on the previous page too, where
\* it did not match: the section's text was carried over the page break.
CarriedBoundary ==
  /\ ev.kind = "boundary"
  /\ carry.page = ev.page - 1
  /\ carry.idx = ev.idx

\* C3 (cross-page carry): when the next section's title does not match in
\* the rest of page N and matches on page N+1, the value finalized for the
\* current section is what was accumulated before, then the rest of page N,
\* then the (trimmed) text of page N+1 before the match, each exactly once.
C3_CrossPageCarry ==
  CarriedBoundary
    => formatted_data[sections[ev.idx + 1]] =
         carry.before \o carry.rem \o Strip(ev.prefix)

C3_Witness ==
  /\ CarriedBoundary
  /\ carry.rem # <<>>
  /\ Strip(ev.prefix) # <<>>
  /\ formatted_data[sections[ev.idx + 1]] = carry.rem \o Strip(ev.prefix)

\* C4 as stated: when the title check stops the TOC pass at page p, the
\* returned last_page is p - 1, and the body scan starts there.
C4_LastPageIsPrevious ==
  broke => /\ last_page = toc_page - 1
           /\ pc \notin {"toc", "toc_return"} => start_page = toc_page - 1

\* C4, amended: when the title check stops the TOC pass at page p, the
\* returned last_page is p itself, and the body scan starts at page p.
C4_LastPageIsBreakPage ==
  broke => /\ last_page = toc_page
           /\ pc \notin {"toc", "toc_return"} =>
                /\ start_page = toc_page
                /\ page_num >= toc_page
                /\ ~text_bound => page_num = toc_page

C4_Witness ==
  /\ broke
  /\ pc = "scan_inner"
  /\ toc_page >= 1
  /\ page_num = toc_page
  /\ text = clean_text(doc[toc_page + 1])

\* The first page that contains the marker (1-based), 0 for none.
FirstMarkerPage ==
  LET ps == {i \in 1..Len(doc) : HasMarker(doc[i])}
  IN  IF ps = {} THEN 0 ELSE CHOOSE i \in ps : \A j \in ps : i <= j

\* C5 (TOC end detection): a page visited in the TOC region that is not the
\* first page containing the marker and whose text contains the document
\* title stops the TOC pass: none of its lines, and no line of a later page,
\* is added to the hierarchy.
C5_StopsAtTitlePage ==
  [][(/\ pc = "toc"
      /\ toc_page < Len(doc)
      /\ toc_found
      /\ toc_page + 1 # FirstMarkerPage
      /\ Contains(doc[toc_page + 1], title))
       => (pc' = "toc_return" /\ chapters_sections' = chapters_sections)]_vars

\* C6 (missing chapter): a section line processed before any chapter line
\* ends the extraction with a data processing error reported and no output.
C6_MissingChapterIsDataError ==
  (pc = "returned" /\ exc = "KeyError")
    => /\ diag = "Data processing error occurred"
       /\ writer_calls = 0

\* C7 (error containment): no failure leaves extract_sections_to_json; a
\* failure of any kind ends with a diagnostic printed and a normal return.
C7_ErrorContainment ==
  /\ pc # "raised"
  /\ exc # "none" => pc \in {"except", "returned"}
  /\ (pc = "returned" /\ exc # "none")
       => diag \in {HandlerClauses[i].msg : i \in 1..Len(HandlerClauses)}

C7_Witness ==
  /\ pc = "returned"
  /\ exc = "KeyError"
  /\ diag = "Unknown error occurred"

\* C8 (no output on failure): the writer is called at most once, and only
\* after the TOC pass and the scan have both completed without a failure.
C8_WriterOnlyAfterSuccess ==
  /\ writer_calls <= 1
  /\ writer_calls = 1
       => /\ pc \in {"except", "returned"}
          /\ exc \in {"none", "OSError"}
          /\ ev.kind = "final"
          /\ page_num >= Len(doc)
  /\ exc \in {"KeyError", "IndexError", "UnboundLocalError"}
       => writer_calls = 0 /\ saved = <<>>

C8_Witness ==
  /\ pc = "returned"
  /\ exc = "IndexError"
  /\ diag = "Data processing error occurred"
  /\ writer_calls = 0

\* C9 (document handle release): when extract_sections_to_json returns, on
\* success or after a failure, the document handle is closed.
C9_HandleClosedOnReturn == pc = "returned" => handle = "closed"

\* The texts C10 speaks of: the title's words, each in either number, with
\* exactly one whitespace character between consecutive words.
TolerantTexts(ttl) == UNION {VariantTexts(ttl, <<c>>) : c \in Whitespace}

\* C10 (pluralization tolerance): the pattern built for a normalized title
\* matches every text made of the title's words, each with or without a
\* trailing "s" independently, separated by exactly one whitespace character.
C10_PluralTolerance ==
  (pat_start # -2 /\ pat_text \in TolerantTexts(pat_title)) => pat_start = 0

C10_Witness ==
  /\ pat_title = JoinWith(<<WordArrest, WordOf, WordPerson>>, <<" ">>, 1)
  /\ pat_text = JoinWith(<<WordArrest \o <<"s">>, WordOf, WordPerson>>, <<" ">>, 1)
  /\ pat_start = 0

\* C11 (normalizer): clean_text(clean_text(x)) = clean_text(x); the output
\* holds no punctuation character, no two consecutive whitespace characters
\* and no leading or trailing whitespace; and clean_text("") = "".
C11_Normalizer ==
  /\ norm_step >= 1 =>
       /\ \A i \in 1..Len(norm_out) : norm_out[i] \notin Punctuation
       /\ \A i \in 1..(Len(norm_out) - 1) :
            ~(norm_out[i] \in Whitespace /\ norm_out[i + 1] \in Whitespace)
       /\ norm_out # <<>> =>
            /\ norm_out[1] \notin Whitespace
            /\ norm_out[Len(norm_out)] \notin Whitespace
       /\ norm_in = <<>> => norm_out = <<>>
  /\ norm_step = 2 => norm_again = norm_out

C11_Witness ==
  /\ norm_step = 2
  /\ norm_in = <<" ", ".", "B", "\n">>
  /\ norm_out = <<"b">>
  /\ norm_again = <<"b">>

\* extract_section_content is running or has returned, with a non-empty
\* section list.
InScan == pc \in {"scan_page", "scan_inner", "save"} /\ sections # <<>>

\* C12 (scanner index invariant): with a non-empty section list the index
\* stays in 0..len(sections)-1; a step leaves it unchanged or adds exactly
\* one; the pattern looked up is at index + 1 <= len(sections) - 1; and the
\* accumulator is reset to empty exactly when the index advances.
C12_IndexInvariant ==
  /\ [](InScan =>
          /\ 0 <= current_section_index
          /\ current_section_index <= Len(sections) - 1
          /\ ev.kind \in {"boundary", "nomatch"} =>
               /\ ev.idx + 1 <= Len(sections) - 1
               /\ ev.idx + 2 \in DOMAIN section_patterns)
  /\ [][InScan =>
          /\ \/ current_section_index' = current_section_index
             \/ current_section_index' = current_section_index + 1
          /\ current_section_index' # current_section_index =>
               current_section_text' = <<>>
          /\ current_section_index' = current_section_index =>
               \E rest \in {<<>>, text} :
                  current_section_text' = current_section_text \o rest]_vars

C12_Witness ==
  /\ InScan
  /\ Len(sections) = 3
  /\ ev.kind = "boundary"
  /\ ev.idx = 1
  /\ current_section_index = 2
  /\ current_section_text = <<>>

\* The section titles are pairwise distinct (and there is at least one).
DistinctTitles ==
  /\ sections # <<>>
  /\ \A i, j \in 1..Len(sections) : sections[i] = sections[j] => i = j

\* C13 (incremental output): with pairwise distinct titles, during the scan
\* the keys of the output mapping are exactly the sections before the
\* current index; an entry once written is never modified; and on return
\* the keys are exactly the sections up to the final index.
C13_IncrementalOutput ==
  /\ []((DistinctTitles /\ pc \in {"scan_page", "scan_inner"}) =>
          DOMAIN formatted_data =
            {sections[i] : i \in 1..current_section_index})
  /\ []((DistinctTitles /\ pc \in {"save", "returned"} /\ ev.kind = "final") =>
          DOMAIN formatted_data =
            {sections[i] : i \in 1..(current_section_index + 1)})
  /\ [][DistinctTitles =>
          \A k \in DOMAIN formatted_data :
             /\ k \in DOMAIN formatted_data'
             /\ formatted_data'[k] = formatted_data[k]]_vars

C13_Witness ==
  /\ DistinctTitles
  /\ Len(sections) = 3
  /\ pc = "scan_inner"
  /\ current_section_index = 2
  /\ DOMAIN formatted_data = {sections[1], sections[2]}

\* The normalized texts the scan has still to search: the rest of the page
\* in hand and every later page.
RemainingTexts ==
  (IF pc = "scan_inner" /\ ~page_processed THEN {text} ELSE {})
    \cup {clean_text(doc[i + 1]) :
            i \in (IF pc = "scan_inner" THEN page_num + 1 ELSE page_num)
                    ..(Len(doc) - 1)}

\* The scan is under way, not on the last section, and the title of the next
\* section matches nowhere in what is left of the document.
NextNeverMatches ==
  /\ pc \in {"scan_page", "scan_inner"}
  /\ current_section_index < Len(sections) - 1
  /\ \A t \in RemainingTexts :
        Search(section_patterns[current_section_index + 2], t) < 0

\* Whether the pattern of section j (1-based) matches on a scanned page.
MatchesOnScannedPage(j) ==
  \E i \in start_page..(Len(doc) - 1) :
     Search(section_patterns[j], clean_text(doc[i + 1])) >= 0

\* C14 as stated: a section whose title matches nowhere is absorbed only
\* until a later title that does match is found, and that later section
\* receives its own entry in the output mapping.
C14_LaterMatchGetsEntry ==
  (ev.kind = "final" /\ DistinctTitles) =>
    \A j \in 3..Len(sections) :
       (/\ MatchesOnScannedPage(j)
        /\ \E k \in 2..(j - 1) : ~MatchesOnScannedPage(k))
         => sections[j] \in DOMAIN formatted_data

\* C14, amended: once the title of the next section matches nowhere in the
\* remaining pages, the index never advances again; every remaining page is
\* appended to the accumulator of the section being assembled up to the end
\* of the document, and no later section receives an entry, even one whose
\* title does match.
C14_AbsorbsToTheEnd ==
  /\ [][NextNeverMatches =>
          /\ current_section_index' = current_section_index
          /\ current_section_text' \in
               {current_section_text, current_section_text \o text}
          /\ formatted_data' # formatted_data => pc' = "save"]_vars
  /\ []((ev.kind = "final" /\ current_section_index < Len(sections) - 1) =>
          /\ current_section_text = since_boundary
          /\ DOMAIN formatted_data =
               {sections[i] : i \in 1..(current_section_index + 1)})

C14_Witness ==
  /\ ev.kind = "final"
  /\ DistinctTitles
  /\ Len(sections) = 3
  /\ current_section_index = 0
  /\ ~MatchesOnScannedPage(2)
  /\ Search(section_patterns[3], text) >= 0
  /\ sections[3] \notin DOMAIN formatted_data
  /\ Len(current_section_text) > Len(text)

\* The chapter headings met among the lines processed so far.
HeadingsSeen ==
  {Strip(toc_lines[i]) :
     i \in {j \in 1..toc_pos : is_chapter_line(toc_lines[j])}}

\* The position of the last chapter line with heading h processed so far.
LastOccurrence(h) ==
  CHOOSE i \in 1..toc_pos :
    /\ is_chapter_line(toc_lines[i]) /\ Strip(toc_lines[i]) = h
    /\ \A j \in (i + 1)..toc_pos :
          ~(is_chapter_line(toc_lines[j]) /\ Strip(toc_lines[j]) = h)

\* The normalized section lines from position i on, up to the next chapter
\* line or the end of the lines processed, in encounter order.
RECURSIVE SectionLinesFrom(_)
SectionLinesFrom(i) ==
  IF i > toc_pos \/ is_chapter_line(toc_lines[i])
    THEN <<>>
    ELSE IF is_section_line(toc_lines[i])
      THEN <<clean_text(Strip(toc_lines[i]))>> \o SectionLinesFrom(i + 1)
      ELSE SectionLinesFrom(i + 1)

\* C15: the list stored under a chapter heading holds exactly the normalized
\* section lines that followed the last occurrence of that heading up to the
\* next chapter line, in encounter order; sections listed under an earlier
\* occurrence of the heading are dropped.
C15_RepeatedChapterResets ==
  (toc_lines # <<>> /\ exc = "none") =>
    /\ {chapters_sections[i].chapter : i \in 1..Len(chapters_sections)}
         = HeadingsSeen
    /\ \A i \in 1..Len(chapters_sections) :
          chapters_sections[i].sections =
            SectionLinesFrom(LastOccurrence(chapters_sections[i].chapter) + 1)

C15_Witness ==
  /\ toc_pos = Len(toc_lines) /\ toc_pos = 4 /\ exc = "none"
  /\ toc_lines[1] = LineChapterI /\ toc_lines[2] = LineSectionAb
  /\ toc_lines[3] = LineChapterIIndented /\ toc_lines[4] = LineSectionCd
  /\ Len(chapters_sections) = 1
  /\ chapters_sections[1].sections = <<clean_text(LineSectionCd)>>

\* The lines of a marker page that come after its first marker.
LinesAfterMarker(raw) ==
  LET lines == Split(Drop(raw, Find(raw, MARKER) - 1 + Len(MARKER)), <<"\n">>)
  IN  {lines[i] : i \in 1..Len(lines)}

\* C16: while the marker has not been found, no page changes the hierarchy
\* or the current chapter, and on the first marker page every heading and
\* every section title stored comes from a line after the marker.
C16_SearchingFrame ==
  /\ []((pc = "toc" /\ ~toc_found) =>
          /\ chapters_sections = <<>>
          /\ current_chapter = <<>>)
  /\ [][(pc = "toc" /\ ~toc_found /\ toc_page < Len(doc)) =>
          IF ~HasMarker(doc[toc_page + 1])
            THEN /\ chapters_sections' = chapters_sections
                 /\ current_chapter' = current_chapter
                 /\ ~toc_found'
            ELSE LET after == LinesAfterMarker(doc[toc_page + 1])
                 IN  /\ current_chapter' \in
                          {<<>>} \cup {Strip(l) : l \in {x \in after :
                                                     is_chapter_line(x)}}
                     /\ \A i \in 1..Len(chapters_sections') :
                          /\ chapters_sections'[i].chapter \in
                               {Strip(l) : l \in {x \in after :
                                                    is_chapter_line(x)}}
                          /\ \A k \in 1..Len(chapters_sections'[i].sections) :
                               chapters_sections'[i].sections[k] \in
                                 {clean_text(Strip(l)) :
                                    l \in {x \in after : is_section_line(x)}}
       ]_vars

\* The marker page has been read: the lines before its marker, a chapter
\* line and a section line, left nothing in the hierarchy.
C16_Witness ==
  /\ pc = "toc" /\ toc_found /\ toc_page = 2
  /\ doc[1] = PageCover /\ doc[2] = PageTocAfterLines
  /\ Len(chapters_sections) = 1
  /\ chapters_sections[1].chapter = <<"C", "H", "A", "P", "T", "E", "R", " ", "I">>

\* The positions finalized so far that share their title with an earlier
\* finalized position and with no later one.
LastDuplicates ==
  {q \in 1..Len(finalized) :
     /\ \E p \in 1..(q - 1) : sections[p] = sections[q]
     /\ \A r \in (q + 1)..Len(finalized) : sections[r] # sections[q]}

\* C17: when one title has been finalized at two positions, the mapping
\* holds one entry for it, the value finalized at the later position; the
\* extraction does not fail and that mapping is what is written.
C17_LastWriteWins ==
  \A q \in LastDuplicates :
     /\ sections[q] \in DOMAIN formatted_data
     /\ formatted_data[sections[q]] = finalized[q]
     /\ exc \in {"none", "OSError"}
     /\ (pc = "returned" /\ exc = "none") =>
           /\ sections[q] \in DOMAIN saved
           /\ saved[sections[q]] = finalized[q]

C17_Witness ==
  /\ pc = "returned" /\ exc = "none"
  /\ Len(finalized) = 2
  /\ sections[1] = sections[2]
  /\ finalized[1] # finalized[2]
  /\ DOMAIN saved = {sections[2]}
  /\ saved[sections[2]] = finalized[2]

\* The measure of the scan: the sections and the pages still ahead, and
\* whether the inner loop can still turn on the page in hand.
ScanMeasure ==
  3 * (Len(sections) - current_section_index)
    + 3 * (Len(doc) - page_num)
    + (IF pc = "scan_inner" THEN (IF page_processed THEN 1 ELSE 2) ELSE 3)

\* C18: the scan terminates.  Every turn of the inner loop either advances
\* current_section_index, which stays at most len(sections) - 1, or marks
\* the page processed, a boundary found at offset 0 included; and every step
\* of the scan lowers a measure that is never negative, so that no run of
\* the scan has more steps than its measure at the start.
C18_ScanTerminates ==
  /\ [][(pc = "scan_inner" /\ pc' = "scan_inner") =>
          \/ /\ current_section_index' = current_section_index + 1
             /\ current_section_index' <= Len(sections) - 1
          \/ /\ ~page_processed /\ page_processed'
             /\ current_section_index' = current_section_index]_vars
  /\ [][(pc \in {"scan_page", "scan_inner"}
           /\ pc' \in {"scan_page", "scan_inner"}) =>
          ScanMeasure' < ScanMeasure]_vars
  /\ [](pc \in {"scan_page", "scan_inner"} => ScanMeasure >= 0)

\* A boundary found at offset 0 of the remaining text has moved the index on.
C18_Witness ==
  /\ pc = "scan_inner"
  /\ ev.kind = "boundary" /\ ev.prefix = <<>>
  /\ ev.page = page_num
  /\ current_section_index = ev.idx + 1

\* The TOC pass has ended without raising and has listed no section.
NoSectionListed ==
  /\ Len(doc) >= 1
  /\ pc \notin {"toc", "toc_return"}
  /\ exc # "KeyError"
  /\ Flatten(chapters_sections, 1) = <<>>

\* C19: when the TOC pass lists no section, the run never reaches the
\* writer; it ends by returning normally, with the out-of-range index
\* reported as a data-processing error and nothing written.
C19_EmptyHierarchy ==
  NoSectionListed =>
    /\ pc \in {"scan_page", "scan_inner", "except", "returned"}
    /\ writer_calls = 0 /\ saved = <<>>
    /\ formatted_data = <<>>
    /\ pc = "except" => exc = "IndexError"
    /\ pc = "returned" =>
         /\ exc = "IndexError"
         /\ diag = "Data processing error occurred"

\* The marker was found, a chapter heading was stored, and no section line
\* followed: the run has ended in the data-processing handler.
C19_Witness ==
  /\ NoSectionListed
  /\ pc = "returned"
  /\ toc_found /\ Len(chapters_sections) = 1
  /\ diag = "Data processing error occurred"
  /\ saved = <<>>

\* The marker was never found: the same end.
C19_WitnessNoMarker ==
  /\ NoSectionListed
  /\ pc = "returned"
  /\ ~toc_found /\ chapters_sections = <<>>
  /\ diag = "Data processing error occurred"

====
